---- MODULE Spec2Model ----
(***************************************************************************)
(* Model of ouch's decompression pipeline:                                 *)
(*   src/src/commands/decompress.rs   decompress_file, smart_unpack        *)
(*   src/src/archive/sevenz.rs        decompress_sevenz                    *)
(* One behaviour is one call of decompress_file.  The file system under    *)
(* output_dir is the function fs from path names to nodes; log is the      *)
(* sequence of externally visible events of the call, in program order.   *)
(***************************************************************************)
EXTENDS Integers, Sequences, FiniteSets, TLC

\* ---------------------------------------------------------------- bounds
\* Longest format chain (number of Extension values in `formats`).
MaxChain == 2
\* Most entries an archive holds.
MaxEntries == 2

\* ---------------------------------------------------------------- formats
\* CompressionFormat, as matched in chain_reader_decoder and in the
\* terminal match of decompress_file.
FilterFormats == {"Gzip", "Bzip", "Lz4", "Lzma", "Snappy", "Zstd"}
ContainerFormats == {"Tar", "Zip", "SevenZip"}
CompressionFormat == FilterFormats \cup ContainerFormats

\* An Extension is modelled by its compression_formats slice: one format
\* each, and the two-format shorthands "tgz" = [Tar, Gzip] and
\* "tzst" = [Tar, Zstd].
Extensions ==
    { <<f>> : f \in CompressionFormat }
        \cup { <<"Tar", "Gzip">>, <<"Tar", "Zstd">> }

RECURSIVE flatten_compression_formats(_)
flatten_compression_formats(exts) ==
    IF exts = <<>> THEN <<>>
    ELSE Head(exts) \o flatten_compression_formats(Tail(exts))

\* (first_extension, extensions): the first format of the flattened chain
\* and the formats after it.
split_first_compression_format(exts) ==
    LET flat == flatten_compression_formats(exts)
    IN  <<Head(flat), Tail(flat)>>

\* The `if let [Extension { compression_formats: [Zip], .. }]` pattern.
IsZipOnlyMut(exts) == FALSE
IsZipOnly(exts) == Len(exts) = 1 /\ exts[1] = <<"Zip">>

\* `formats.len() > 1` in the Zip arm.
ZipNeedsWarningMut(exts) == Len(exts) > 2
ZipNeedsWarning(exts) == Len(exts) > 1

\* chain_reader_decoder: the reader is the sequence of decoders wrapped
\* around the raw file reader, innermost wrapper first.  `ok` is whether a
\* fallible constructor succeeded (only Zstd's is fallible).
chain_reader_decoderMut(format, decoder, ok) ==
    IF format = "Zstd" /\ ~ok
      THEN [res |-> "Err", reader |-> decoder]
      ELSE IF format \in {"Tar", "Zip", "SevenZip"}
             THEN [res |-> "Ok", reader |-> decoder]
             ELSE [res |-> "Ok", reader |-> Append(decoder, format)]
chain_reader_decoder(format, decoder, ok) ==
    CASE format \in {"Gzip", "Bzip", "Lz4", "Lzma", "Snappy"} ->
            [res |-> "Ok", reader |-> Append(decoder, format)]
      [] format = "Zstd" ->
            IF ok THEN [res |-> "Ok", reader |-> Append(decoder, format)]
                  ELSE [res |-> "Err", reader |-> decoder]
      [] format \in {"Tar", "Zip", "SevenZip"} ->
            [res |-> "panic", reader |-> decoder]

\* ---------------------------------------------------------------- files
\* Names directly under output_dir; archive entries have these top-level
\* names too.
Names == {"A", "B", "archive"}
\* The directory tempfile::tempdir_in creates: a fresh name in output_dir.
TmpName == ".tmp"
Paths == Names \cup {TmpName}
\* output_file_path: output_dir joined with the archive's base name.
output_file_path == "archive"

\* An archive entry: top-level name `top`; leaf "" is the top-level item
\* itself (a file or a directory), leaf "f" is a regular file inside the
\* directory `top`.
Entry ==
    { e \in [top : Names, leaf : {"", "f"}, isDir : BOOLEAN] :
        e.leaf = "f" => ~e.isDir }

NoNode == [kind |-> "none", entries |-> {}]
OldNode == [kind |-> "old", entries |-> {}]
TmpNode(es) == [kind |-> "tmp", entries |-> es]
NewNode(es) == [kind |-> "new", entries |-> es]
OutFile(state) == [kind |-> state, entries |-> {}]

\* Whether the extractor can write entry e next to the entries es.
CanWrite(es, e) ==
    /\ \A x \in es : ~(x.top = e.top /\ x.leaf = e.leaf)
    /\ e.leaf = "f" => \A x \in es : (x.top = e.top /\ x.leaf = "") => x.isDir
    /\ (e.leaf = "" /\ ~e.isDir) => \A x \in es : x.top # e.top

\* fs::read_dir(temp_dir_path): the top-level names in the directory.
read_dir(node) == { e.top : e \in node.entries }

root_contains_only_one_element(node) == Cardinality(read_dir(node)) = 1

\* output_dir.join(file_name)
correct_pathMut(file_name) == output_file_path
correct_path(file_name) == file_name

\* Drop of the TempDir guard: removes the directory at its original path
\* with whatever it still holds; a missing directory is ignored.
DropTempDirMut(f) == f
DropTempDir(f) == [f EXCEPT ![TmpName] = NoNode]

\* utils::clear_path: an absent path is clear; for an existing one the user
\* is asked, and on consent the path is removed.
clear_path(f, path, answer) ==
    IF f[path].kind = "none" THEN [res |-> "true", fs |-> f]
    ELSE CASE answer = "yes" -> [res |-> "true", fs |-> [f EXCEPT ![path] = NoNode]]
           [] answer = "no"  -> [res |-> "false", fs |-> f]
           [] OTHER          -> [res |-> "Err", fs |-> f]

\* fs::rename(&file_path, &correct_path): move the one top-level entry.
rename_entry(f, name, to) ==
    [f EXCEPT ![to] = NewNode({ e \in f[TmpName].entries : e.top = name }),
              ![TmpName] = TmpNode({ e \in f[TmpName].entries : e.top # name })]

\* fs::rename(temp_dir_path, output_file_path): move the directory itself.
rename_temp_dirMut(f, to) ==
    [p \in Paths |->
        IF p = TmpName THEN NoNode
        ELSE IF p \in read_dir(f[TmpName])
             THEN NewNode({ e \in f[TmpName].entries : e.top = p })
             ELSE f[p]]
rename_temp_dir(f, to) ==
    [f EXCEPT ![to] = NewNode(f[TmpName].entries), ![TmpName] = NoNode]

\* The closure of decompress_sevenz counts every entry handed to it.
sevenz_count(count, e) == count + 1
\* archive::{tar,zip}::unpack_archive count the files they unpack.
unpack_archive_count(count, e) == IF e.isDir THEN count ELSE count + 1

\* ---------------------------------------------------------------- state
VARIABLES
    pc,                \* position in decompress_file / smart_unpack
    formats,           \* the format chain: a sequence of Extensions
    output_dir_exists, \* output_dir.exists()
    fs,                \* the nodes under output_dir, by name
    fs0,               \* fs as it was when decompress_file was called
    extracted,         \* the entries unpack_fn had written when it returned
    reader,            \* decoders wrapped around the raw file reader
    idx,               \* position of the decoder chaining loop
    unpack_fn,         \* the extractor closure handed to smart_unpack
    count,             \* the extractor's running entry count
    files,             \* `files`, the value unpack_fn returned
    files_unpacked,    \* `files_unpacked` of decompress_file
    declined,          \* the question the user answered "no" to, if any
    aborted,           \* an early `return Ok(())` was taken
    flow,              \* what smart_unpack returned
    ret,               \* what decompress_file returned
    log                \* events so far, in program order

vars ==
    <<pc, formats, output_dir_exists, fs, fs0, extracted, reader, idx,
      unpack_fn, count, files, files_unpacked, declined, aborted, flow, ret,
      log>>

first_extension == split_first_compression_format(formats)[1]
extensions == split_first_compression_format(formats)[2]

RECURSIVE Chains(_)
Chains(n) ==
    IF n = 0 THEN {<<>>}
    ELSE Chains(n - 1)
            \cup { Append(c, x) : c \in { d \in Chains(n - 1) : Len(d) = n - 1 },
                                  x \in Extensions }

Answers == {"yes", "no", "err"}

Init ==
    /\ pc = "start"
    /\ formats \in Chains(MaxChain) \ {<<>>}
    /\ output_dir_exists \in BOOLEAN
    /\ fs \in [Paths -> {NoNode, OldNode}]
    /\ fs[TmpName] = NoNode
    /\ ~output_dir_exists => \A p \in Paths : fs[p] = NoNode
    /\ fs0 = fs
    /\ extracted = {}
    /\ reader = <<>>
    /\ idx = 0
    /\ unpack_fn = "none"
    /\ count = 0
    /\ files = 0
    /\ files_unpacked = 0
    /\ declined = "none"
    /\ aborted = FALSE
    /\ flow = "none"
    /\ ret = "none"
    /\ log = <<>>

\* ------------------------------------------------------- decompress_file
\* AssertOutputDir without the assertion.
AssertOutputDirMut ==
    /\ pc = "start"
    /\ pc' = "open"
    /\ UNCHANGED <<formats, output_dir_exists, fs, fs0, extracted, reader,
                   idx, unpack_fn, count, files, files_unpacked, declined,
                   aborted, flow, ret, log>>

\* assert!(output_dir.exists())
AssertOutputDir ==
    /\ pc = "start"
    /\ IF output_dir_exists
         THEN pc' = "open" /\ ret' = ret
         ELSE pc' = "done" /\ ret' = "panic"
    /\ UNCHANGED <<formats, output_dir_exists, fs, fs0, extracted, reader, idx, unpack_fn,
                   count, files, files_unpacked, declined, aborted, flow, log>>

\* fs::File::open(input_file_path)?, then the Zip-only test; otherwise the
\* reader is boxed and the chain is split.
OpenInput ==
    /\ pc = "open"
    /\ \E ok \in BOOLEAN :
        IF ok
          THEN /\ log' = Append(log, "open")
               /\ pc' = IF IsZipOnly(formats) THEN "zip_direct" ELSE "chain"
               /\ idx' = IF IsZipOnly(formats) THEN 0 ELSE Len(extensions)
               /\ ret' = ret
          ELSE /\ pc' = "done" /\ ret' = "Err"
               /\ UNCHANGED <<log, idx>>
    /\ UNCHANGED <<formats, output_dir_exists, fs, fs0, extracted, reader, unpack_fn,
                   count, files, files_unpacked, declined, aborted, flow>>

\* zip::ZipArchive::new(reader)? on the opened file, then smart_unpack.
ZipDirect ==
    /\ pc = "zip_direct"
    /\ \E ok \in BOOLEAN :
        IF ok
          THEN pc' = "su_start" /\ unpack_fn' = "zip_file" /\ ret' = ret
          ELSE pc' = "done" /\ ret' = "Err" /\ unpack_fn' = unpack_fn
    /\ UNCHANGED <<formats, output_dir_exists, fs, fs0, extracted, reader, idx, count,
                   files, files_unpacked, declined, aborted, flow, log>>

\* One turn of `for format in extensions.iter().rev()`.
ChainStep ==
    /\ pc = "chain"
    /\ idx > 0
    /\ \E ok \in BOOLEAN :
        LET r == chain_reader_decoder(extensions[idx], reader, ok)
        IN  CASE r.res = "Ok" ->
                    /\ reader' = r.reader
                    /\ idx' = idx - 1
                    /\ log' = Append(log, "decoder")
                    /\ UNCHANGED <<pc, ret>>
              [] OTHER ->
                    /\ pc' = "done"
                    /\ ret' = r.res
                    /\ UNCHANGED <<reader, idx, log>>
    /\ UNCHANGED <<formats, output_dir_exists, fs, fs0, extracted, unpack_fn, count,
                   files, files_unpacked, declined, aborted, flow>>

\* Gzip | Bzip | Lz4 | Lzma | Snappy | Zstd arm: wrap the last decoder.
FilterArm ==
    /\ pc = "chain"
    /\ idx = 0
    /\ first_extension \in FilterFormats
    /\ \E ok \in BOOLEAN :
        LET r == chain_reader_decoder(first_extension, reader, ok)
        IN  IF r.res = "Ok"
              THEN /\ reader' = r.reader
                   /\ log' = Append(log, "decoder")
                   /\ pc' = "ask_create"
                   /\ ret' = ret
              ELSE /\ pc' = "done" /\ ret' = r.res
                   /\ UNCHANGED <<reader, log>>
    /\ UNCHANGED <<formats, output_dir_exists, fs, fs0, extracted, idx, unpack_fn, count,
                   files, files_unpacked, declined, aborted, flow>>

\* utils::ask_to_create_file: a free path is created at once; for an
\* existing one the user is asked first, and on consent the old node is
\* replaced by a new, empty file.  `asked` is whether the question was put.
ask_to_create_file(f, path, answer) ==
    LET exists == f[path].kind # "none"
        created == [f EXCEPT ![path] = OutFile("empty")]
    IN  CASE answer = "err" ->
                [res |-> "Err", fs |-> f, asked |-> FALSE]
          [] answer = "no" /\ exists ->
                [res |-> "None", fs |-> f, asked |-> TRUE]
          [] OTHER ->
                [res |-> "Some", fs |-> created, asked |-> exists]

\* AskToCreateFile with fs::File::create called directly: the file is
\* created or truncated without a question.
AskToCreateFileMut ==
    /\ pc = "ask_create"
    /\ pc' = "copy"
    /\ fs' = [fs EXCEPT ![output_file_path] = OutFile("empty")]
    /\ log' = Append(log, "create")
    /\ UNCHANGED <<formats, output_dir_exists, fs0, extracted, reader, idx,
                   unpack_fn, count, files, files_unpacked, declined, aborted,
                   flow, ret>>

\* `match utils::ask_to_create_file(&output_file_path, question_policy)? {
\*      Some(file) => file, None => return Ok(()) }`
AskToCreateFile ==
    /\ pc = "ask_create"
    /\ \E answer \in Answers :
        LET r == ask_to_create_file(fs, output_file_path, answer)
            asked == IF r.asked THEN Append(log, "ask_create") ELSE log
        IN  CASE r.res = "Err" ->
                    /\ pc' = "done" /\ ret' = "Err"
                    /\ UNCHANGED <<fs, declined, aborted, log>>
              [] r.res = "None" ->
                    /\ pc' = "done" /\ ret' = "Ok"
                    /\ declined' = "create" /\ aborted' = TRUE
                    /\ log' = asked
                    /\ fs' = r.fs
              [] OTHER ->
                    /\ pc' = "copy" /\ ret' = ret
                    /\ fs' = r.fs
                    /\ log' = Append(asked, "create")
                    /\ UNCHANGED <<declined, aborted>>
    /\ UNCHANGED <<formats, output_dir_exists, fs0, extracted, reader, idx,
                   unpack_fn, count, files, files_unpacked, flow>>

\* io::copy(&mut reader, &mut writer)?; 1
CopyToWriter ==
    /\ pc = "copy"
    /\ \E ok \in BOOLEAN :
        IF ok
          THEN /\ fs' = [fs EXCEPT ![output_file_path] = OutFile("full")]
               /\ files_unpacked' = 1
               /\ log' = Append(log, "copy")
               /\ pc' = "report" /\ ret' = ret
          ELSE /\ fs' = [fs EXCEPT ![output_file_path] = OutFile("partial")]
               /\ pc' = "done" /\ ret' = "Err"
               /\ UNCHANGED <<files_unpacked, log>>
    /\ UNCHANGED <<formats, output_dir_exists, fs0, extracted, reader, idx, unpack_fn,
                   count, files, declined, aborted, flow>>

\* Tar arm: smart_unpack over tar::unpack_archive(reader, ..).
TarArm ==
    /\ pc = "chain"
    /\ idx = 0
    /\ first_extension = "Tar"
    /\ pc' = "su_start"
    /\ unpack_fn' = "tar_reader"
    /\ UNCHANGED <<formats, output_dir_exists, fs, fs0, extracted, reader, idx, count,
                   files, files_unpacked, declined, aborted, flow, ret, log>>

\* Zip arm, `if formats.len() > 1 { warn_user_about_loading_zip_in_memory(); ..`
ZipArm ==
    /\ pc = "chain"
    /\ idx = 0
    /\ first_extension = "Zip"
    /\ IF ZipNeedsWarning(formats)
         THEN pc' = "zip_confirm" /\ log' = Append(log, "warn")
         ELSE pc' = "zip_buffer" /\ log' = log
    /\ UNCHANGED <<formats, output_dir_exists, fs, fs0, extracted, reader, idx, unpack_fn,
                   count, files, files_unpacked, declined, aborted, flow, ret>>

\* user_wants_to_continue(input_file_path, question_policy, Decompression)?
ZipConfirm ==
    /\ pc = "zip_confirm"
    /\ \E answer \in Answers :
        CASE answer = "yes" ->
                /\ pc' = "zip_buffer"
                /\ UNCHANGED <<ret, declined, aborted>>
          [] answer = "no" ->
                /\ pc' = "done" /\ ret' = "Ok"
                /\ declined' = "warning" /\ aborted' = TRUE
          [] OTHER ->
                /\ pc' = "done" /\ ret' = "Err"
                /\ UNCHANGED <<declined, aborted>>
    /\ UNCHANGED <<formats, output_dir_exists, fs, fs0, extracted, reader, idx, unpack_fn,
                   count, files, files_unpacked, flow, log>>

\* io::copy(&mut reader, &mut vec)?; ZipArchive::new(io::Cursor::new(vec))?
ZipBuffer ==
    /\ pc = "zip_buffer"
    /\ log' = Append(log, "buffer")
    /\ \E ok \in BOOLEAN :
        IF ok
          THEN pc' = "su_start" /\ unpack_fn' = "zip_cursor" /\ ret' = ret
          ELSE pc' = "done" /\ ret' = "Err" /\ unpack_fn' = unpack_fn
    /\ UNCHANGED <<formats, output_dir_exists, fs, fs0, extracted, reader, idx, count,
                   files, files_unpacked, declined, aborted, flow>>

\* SevenZip arm: smart_unpack over decompress_sevenz(input_file_path, ..).
SevenZipArm ==
    /\ pc = "chain"
    /\ idx = 0
    /\ first_extension = "SevenZip"
    /\ pc' = "su_start"
    /\ unpack_fn' = "sevenz_path"
    /\ UNCHANGED <<formats, output_dir_exists, fs, fs0, extracted, reader, idx, count,
                   files, files_unpacked, declined, aborted, flow, ret, log>>

\* ----------------------------------------------------------- smart_unpack
\* `if !utils::clear_path(..)? { return Ok(ControlFlow::Break(())) }`:
\* whether the code goes on to the rename for clear_path's answer.
proceedsMut(cleared) == TRUE
proceeds(cleared) == cleared = "true"

\* The one top-level entry of the temporary directory.
file_name == CHOOSE n \in read_dir(fs[TmpName]) : TRUE

\* assert!(output_dir.exists()); tempfile::tempdir_in(output_dir)?
SmartUnpackBegin ==
    /\ pc = "su_start"
    /\ IF ~output_dir_exists
         THEN /\ pc' = "done" /\ ret' = "panic"
              /\ UNCHANGED <<fs, flow, log, count>>
         ELSE \E ok \in BOOLEAN :
                IF ok
                  THEN /\ fs' = [fs EXCEPT ![TmpName] = TmpNode({})]
                       /\ log' = Append(log, "tempdir")
                       /\ count' = 0
                       /\ pc' = "unpack"
                       /\ UNCHANGED <<flow, ret>>
                  ELSE /\ flow' = "Err"
                       /\ pc' = "su_ret"
                       /\ UNCHANGED <<fs, log, count, ret>>
    /\ UNCHANGED <<formats, output_dir_exists, fs0, extracted, reader, idx, unpack_fn,
                   files, files_unpacked, declined, aborted>>

\* unpack_fn writes one more entry of the archive into the temporary
\* directory and counts it its own way.
UnpackEntry ==
    /\ pc = "unpack"
    /\ Cardinality(fs[TmpName].entries) < MaxEntries
    /\ \E e \in Entry :
        /\ CanWrite(fs[TmpName].entries, e)
        /\ fs' = [fs EXCEPT ![TmpName] = TmpNode(fs[TmpName].entries \cup {e})]
        /\ count' = IF unpack_fn = "sevenz_path"
                      THEN sevenz_count(count, e)
                      ELSE unpack_archive_count(count, e)
    /\ UNCHANGED <<pc, formats, output_dir_exists, fs0, extracted, reader, idx, unpack_fn,
                   files, files_unpacked, declined, aborted, flow, ret, log>>

\* UnpackFail without the `?`: the extractor's error is noted and the
\* heuristic goes on with what was written.
UnpackFailMut ==
    /\ pc = "unpack"
    /\ log' = Append(log, "unpack_err")
    /\ pc' = IF root_contains_only_one_element(fs[TmpName])
                THEN "su_single" ELSE "su_multi"
    /\ UNCHANGED <<formats, output_dir_exists, fs, fs0, extracted, reader,
                   idx, unpack_fn, count, files, files_unpacked, declined,
                   aborted, flow, ret>>

\* `unpack_fn(temp_dir_path)?` with an Err: smart_unpack returns it, and the
\* TempDir guard is dropped.
UnpackFail ==
    /\ pc = "unpack"
    /\ fs' = DropTempDir(fs)
    /\ flow' = "Err"
    /\ log' = Append(log, "unpack_err")
    /\ pc' = "su_ret"
    /\ UNCHANGED <<formats, output_dir_exists, fs0, extracted, reader, idx, unpack_fn,
                   count, files, files_unpacked, declined, aborted, ret>>

\* `let files = unpack_fn(temp_dir_path)?` with an Ok, then
\* fs::read_dir(temp_dir_path)?.count() == 1
UnpackDone ==
    /\ pc = "unpack"
    /\ files' = count
    /\ extracted' = fs[TmpName].entries
    /\ \E ok \in BOOLEAN :
        IF ok
          THEN /\ pc' = IF root_contains_only_one_element(fs[TmpName])
                          THEN "su_single" ELSE "su_multi"
               /\ log' = Append(log,
                             IF root_contains_only_one_element(fs[TmpName])
                               THEN "root_single" ELSE "root_multi")
               /\ UNCHANGED <<fs, flow>>
          ELSE /\ fs' = DropTempDir(fs)
               /\ log' = Append(log, "read_dir_err")
               /\ flow' = "Err"
               /\ pc' = "su_ret"
    /\ UNCHANGED <<formats, output_dir_exists, fs0, reader, idx, unpack_fn,
                   count, files_unpacked, declined, aborted, ret>>

\* clear_path on `path`, and the three ways on: Err, Break, the rename.
ClearPath(path, next) ==
    \E answer \in Answers :
        LET r == clear_path(fs, path, answer)
        IN  /\ log' = Append(log, "clear_path")
            /\ declined' = IF r.res = "false" THEN "collision" ELSE declined
            /\ CASE r.res = "Err" ->
                        /\ fs' = DropTempDir(r.fs)
                        /\ flow' = "Err"
                        /\ pc' = "su_ret"
                 [] r.res # "Err" /\ ~proceeds(r.res) ->
                        /\ fs' = DropTempDir(r.fs)
                        /\ flow' = "Break"
                        /\ pc' = "su_ret"
                 [] OTHER ->
                        /\ fs' = r.fs
                        /\ flow' = flow
                        /\ pc' = next

\* SingleClearPath without the collision check: straight on to the rename.
SingleClearPathMut ==
    /\ pc = "su_single"
    /\ pc' = "su_single_rename"
    /\ UNCHANGED <<formats, output_dir_exists, fs, fs0, extracted, reader,
                   idx, unpack_fn, count, files, files_unpacked, declined,
                   aborted, flow, ret, log>>

\* Single-entry branch up to the collision check.
SingleClearPath ==
    /\ pc = "su_single"
    /\ ClearPath(correct_path(file_name), "su_single_rename")
    /\ UNCHANGED <<formats, output_dir_exists, fs0, extracted, reader, idx, unpack_fn,
                   count, files, files_unpacked, aborted, ret>>

\* fs::rename(&file_path, &correct_path)?; Ok(ControlFlow::Continue(files))
SingleRename ==
    /\ pc = "su_single_rename"
    /\ \E ok \in BOOLEAN :
        IF ok
          THEN /\ fs' = DropTempDir(
                          rename_entry(fs, file_name, correct_path(file_name)))
               /\ log' = Append(log, "rename")
               /\ flow' = "Continue"
          ELSE /\ fs' = DropTempDir(fs)
               /\ log' = Append(log, "rename_err")
               /\ flow' = "Err"
    /\ pc' = "su_ret"
    /\ UNCHANGED <<formats, output_dir_exists, fs0, extracted, reader, idx, unpack_fn,
                   count, files, files_unpacked, declined, aborted, ret>>

\* Multi-entry branch up to the collision check.
MultiClearPath ==
    /\ pc = "su_multi"
    /\ ClearPath(output_file_path, "su_multi_rename")
    /\ UNCHANGED <<formats, output_dir_exists, fs0, extracted, reader, idx, unpack_fn,
                   count, files, files_unpacked, aborted, ret>>

\* fs::rename(temp_dir_path, output_file_path)?; Ok(ControlFlow::Continue(files))
MultiRename ==
    /\ pc = "su_multi_rename"
    /\ \E ok \in BOOLEAN :
        IF ok
          THEN /\ fs' = DropTempDir(rename_temp_dir(fs, output_file_path))
               /\ log' = Append(log, "rename")
               /\ flow' = "Continue"
          ELSE /\ fs' = DropTempDir(fs)
               /\ log' = Append(log, "rename_err")
               /\ flow' = "Err"
    /\ pc' = "su_ret"
    /\ UNCHANGED <<formats, output_dir_exists, fs0, extracted, reader, idx, unpack_fn,
                   count, files, files_unpacked, declined, aborted, ret>>

\* SmartUnpackReturn with Break and errors falling through to the report
\* with a count of 0.
SmartUnpackReturnMut ==
    /\ pc = "su_ret"
    /\ files_unpacked' = IF flow = "Continue" THEN files ELSE 0
    /\ pc' = "report"
    /\ UNCHANGED <<formats, output_dir_exists, fs, fs0, extracted, reader,
                   idx, unpack_fn, count, files, declined, aborted, flow, ret,
                   log>>

\* Back in decompress_file: `if let ControlFlow::Continue(files) =
\* smart_unpack(..)? { files } else { return Ok(()) }`
SmartUnpackReturn ==
    /\ pc = "su_ret"
    /\ CASE flow = "Continue" ->
                /\ files_unpacked' = files
                /\ pc' = "report"
                /\ UNCHANGED <<ret, aborted>>
         [] flow = "Break" ->
                /\ pc' = "done" /\ ret' = "Ok" /\ aborted' = TRUE
                /\ UNCHANGED files_unpacked
         [] OTHER ->
                /\ pc' = "done" /\ ret' = "Err"
                /\ UNCHANGED <<files_unpacked, aborted>>
    /\ UNCHANGED <<formats, output_dir_exists, fs, fs0, extracted, reader, idx, unpack_fn,
                   count, files, declined, flow, log>>

\* info!("Successfully decompressed archive ..."); Ok(())
Report ==
    /\ pc = "report"
    /\ log' = Append(log, "info")
    /\ pc' = "done"
    /\ ret' = "Ok"
    /\ UNCHANGED <<formats, output_dir_exists, fs, fs0, extracted, reader, idx, unpack_fn,
                   count, files, files_unpacked, declined, aborted, flow>>

Next ==
    \/ AssertOutputDir
    \/ OpenInput
    \/ ZipDirect
    \/ ChainStep
    \/ FilterArm
    \/ AskToCreateFile
    \/ CopyToWriter
    \/ TarArm
    \/ ZipArm
    \/ ZipConfirm
    \/ ZipBuffer
    \/ SevenZipArm
    \/ SmartUnpackBegin
    \/ UnpackEntry
    \/ UnpackFail
    \/ UnpackDone
    \/ SingleClearPath
    \/ SingleRename
    \/ MultiClearPath
    \/ MultiRename
    \/ SmartUnpackReturn
    \/ Report

Spec == Init /\ [][Next]_vars

\* smart_unpack called on its own, with an extractor closure and an output
\* directory that may be missing.
InitSmartUnpack ==
    /\ pc = "su_start"
    /\ \E c \in { <<"Tar", "tar_reader">>, <<"Zip", "zip_file">>,
                   <<"SevenZip", "sevenz_path">> } :
            formats = << <<c[1]>> >> /\ unpack_fn = c[2]
    /\ output_dir_exists \in BOOLEAN
    /\ fs \in [Paths -> {NoNode, OldNode}]
    /\ fs[TmpName] = NoNode
    /\ ~output_dir_exists => \A p \in Paths : fs[p] = NoNode
    /\ fs0 = fs
    /\ extracted = {}
    /\ reader = <<>>
    /\ idx = 0
    /\ count = 0
    /\ files = 0
    /\ files_unpacked = 0
    /\ declined = "none"
    /\ aborted = FALSE
    /\ flow = "none"
    /\ ret = "none"
    /\ log = <<>>

\* Calls of decompress_file and calls of smart_unpack.
SpecCalls == (Init \/ InitSmartUnpack) /\ [][Next]_vars

\* ---------------------------------------------------------------- claims
Occurs(ev) == \E i \in 1..Len(log) : log[i] = ev
NumOf(ev) == Cardinality({ i \in 1..Len(log) : log[i] = ev })
\* Every occurrence of event b has an occurrence of event a before it.
Precedes(a, b) ==
    \A j \in 1..Len(log) : log[j] = b => \E i \in 1..(j - 1) : log[i] = a
DestUnchanged == \A n \in Names : fs[n] = fs0[n]
TempDirGone == fs[TmpName] = NoNode
\* Regular files among the entries now under the destination.
RegularFilesOnDisk ==
    { e \in UNION { fs[n].entries : n \in Names } : ~e.isDir }

\* C1: once smart_unpack has returned, on whatever path (Continue after a
\* single-entry or multi-entry promotion, Break, or an error of tempdir_in,
\* the extractor, read_dir, clear_path or rename), no temporary directory
\* exists at its original path any more.
C1_TempDirRemoved ==
    (flow # "none" \/ pc \in {"su_ret", "report", "done"}) => TempDirGone

\* C1 witness: a rename failed after the extractor had filled the temporary
\* directory, and smart_unpack has returned.
C1_Witness ==
    /\ Occurs("rename_err")
    /\ extracted # {}
    /\ flow = "Err"
    /\ pc = "done"
    /\ TempDirGone

\* C2: when the user declines the collision question (either promotion
\* case), no rename happens, everything under the destination is as it was
\* before the call, the temporary directory is gone, smart_unpack returns
\* Break and decompress_file returns early.
C2_CollisionAbortNoOp ==
    declined = "collision" =>
        /\ flow = "Break"
        /\ ~Occurs("rename")
        /\ DestUnchanged
        /\ TempDirGone
        /\ pc \in {"su_ret", "done"}
        /\ pc = "done" => (aborted /\ ~Occurs("info"))

\* C2 witness: a declined collision in the multi-entry case, with several
\* entries extracted and an existing node at the proposed path.
C2_Witness ==
    /\ declined = "collision"
    /\ Occurs("root_multi")
    /\ Cardinality(read_dir([entries |-> extracted])) > 1
    /\ fs0[output_file_path] = OldNode
    /\ pc = "done"

\* A declined collision in the single-entry case is reached as well.
C2_WitnessSingle ==
    /\ declined = "collision"
    /\ Occurs("root_single")
    /\ pc = "done"

\* C3: for a chain whose terminal (first_extension) is Zip and that has
\* further layers, the in-memory-load warning is issued at most once, and
\* exactly once before the stream is buffered, before any temporary
\* directory is created and before the extractor is chosen; when the user
\* declines it, decompress_file has returned Ok with nothing buffered, no
\* temporary directory created and the destination as it was.
C3_ZipWithFiltersConfirms ==
    (first_extension = "Zip" /\ Len(flatten_compression_formats(formats)) > 1) =>
        /\ NumOf("warn") <= 1
        /\ (Occurs("buffer") \/ Occurs("tempdir") \/ unpack_fn # "none") =>
                /\ NumOf("warn") = 1
                /\ Precedes("warn", "buffer")
                /\ Precedes("buffer", "tempdir")
        /\ declined = "warning" =>
                /\ pc = "done" /\ ret = "Ok" /\ aborted
                /\ ~Occurs("buffer") /\ ~Occurs("tempdir")
                /\ fs = fs0

\* C3 witness: a Zip terminal under one filter, warned once, confirmed,
\* buffered and extracted.
C3_Witness ==
    /\ first_extension = "Zip"
    /\ extensions = <<"Gzip">>
    /\ Len(log) >= 3
    /\ SubSeq(log, 1, 3) = <<"open", "decoder", "warn">>
    /\ Occurs("tempdir")
    /\ extracted # {}

\* The declining answer to the warning is reached as well.
C3_WitnessDeclined ==
    /\ first_extension = "Zip"
    /\ declined = "warning"
    /\ pc = "done"

\* C4: for the chain [Zip] alone the archive is read from the opened file:
\* no warning is issued, nothing is copied into a buffer, no decoder is
\* wrapped around the file, and the extractor is the one over the file.
C4_ZipOnlyDirect ==
    formats = << <<"Zip">> >> =>
        /\ ~Occurs("warn")
        /\ ~Occurs("buffer")
        /\ reader = <<>>
        /\ unpack_fn \in {"none", "zip_file"}
        /\ declined # "warning"

\* C4 witness: a [Zip] chain extracted and reported.
C4_Witness ==
    /\ formats = << <<"Zip">> >>
    /\ unpack_fn = "zip_file"
    /\ extracted # {}
    /\ Occurs("info")

\* C5: the entry count reported for a container extraction equals the
\* number of regular files written to disk; directory entries of a 7z
\* archive do not count.
C5_EntryCountAccurate ==
    (Occurs("info") /\ unpack_fn # "none") =>
        files_unpacked = Cardinality(RegularFilesOnDisk)

\* C6: after a user abort (collision declined, output file declined, load
\* warning declined) decompress_file returns a status other than the one
\* it returns on success, which is Ok(()).
C6_AbortDistinctFromSuccess ==
    (pc = "done" /\ declined # "none") => ret # "Ok"

\* C7: after a single-entry promotion the one extracted top-level entry X
\* is at destination/X with all it held, by exactly one rename; every other
\* name under the destination is as before and the temporary directory is
\* gone.
C7_SinglePromotion ==
    (Occurs("root_single") /\ flow = "Continue") =>
        \E X \in Names :
            /\ read_dir([entries |-> extracted]) = {X}
            /\ fs[X] = NewNode(extracted)
            /\ \A n \in Names \ {X} : fs[n] = fs0[n]
            /\ TempDirGone
            /\ NumOf("rename") = 1

\* C7 witness: entry "A" (a directory and a file in it) promoted to
\* destination/A over an existing node, the archive's base name untouched.
C7_Witness ==
    /\ Occurs("root_single")
    /\ flow = "Continue"
    /\ fs0["A"] = OldNode
    /\ fs["A"].kind = "new"
    /\ Cardinality(fs["A"].entries) = 2
    /\ fs[output_file_path] = fs0[output_file_path]
    /\ pc = "done"

\* C8: after a multi-entry promotion (zero or several top-level entries)
\* the proposed path holds exactly the extracted entries, by exactly one
\* rename; every other name under the destination is as before and the
\* original temporary directory path is gone.
C8_MultiPromotion ==
    (Occurs("root_multi") /\ flow = "Continue") =>
        /\ Cardinality(read_dir([entries |-> extracted])) # 1
        /\ fs[output_file_path] = NewNode(extracted)
        /\ \A n \in Names \ {output_file_path} : fs[n] = fs0[n]
        /\ TempDirGone
        /\ NumOf("rename") = 1

\* C8 witness: entries "A" and "B" promoted as destination/archive while
\* destination/A exists and stays.
C8_Witness ==
    /\ Occurs("root_multi")
    /\ flow = "Continue"
    /\ read_dir(fs[output_file_path]) = {"A", "B"}
    /\ fs0["A"] = OldNode
    /\ fs["A"] = OldNode
    /\ pc = "done"

\* The empty archive takes the multi-entry branch too.
C8_WitnessEmpty ==
    /\ Occurs("root_multi")
    /\ flow = "Continue"
    /\ extracted = {}
    /\ fs[output_file_path] = NewNode({})

\* C9: when the extractor fails, smart_unpack returns the error: the
\* collision question is never asked, nothing is renamed, the destination
\* is as before, the temporary directory is gone, and decompress_file
\* returns the error without a report.
C9_ExtractorErrorPropagates ==
    Occurs("unpack_err") =>
        /\ flow = "Err"
        /\ ~Occurs("clear_path")
        /\ ~Occurs("rename")
        /\ DestUnchanged
        /\ TempDirGone
        /\ pc \in {"su_ret", "done"}
        /\ pc = "done" => (ret = "Err" /\ ~Occurs("info"))

\* C9 witness: the extractor failed after it had written an entry.
C9_Witness ==
    /\ Occurs("unpack_err")
    /\ count > 0
    /\ ret = "Err"
    /\ pc = "done"

\* C10: with terminal SevenZip no decoder is ever wrapped around the file,
\* and the 7z extractor runs only for a chain of that one layer.
C10_SevenZipSoleLayer ==
    first_extension = "SevenZip" =>
        /\ reader = <<>>
        /\ unpack_fn = "sevenz_path" =>
                Len(flatten_compression_formats(formats)) = 1

\* C11: when a container format stands anywhere in the chain but at the
\* terminal position (the position of first_extension), decompress_file
\* ends while composing decoders, with a panic or a decoder's error: no
\* question is asked, no warning issued, nothing buffered, no temporary
\* directory or output file created, nothing under the destination changed.
MisplacedContainer ==
    \E i \in 1..Len(extensions) : extensions[i] \in ContainerFormats

C11_MisplacedContainerFailsFast ==
    MisplacedContainer =>
        /\ pc \in {"start", "open", "chain", "done"}
        /\ \A i \in 1..Len(log) : log[i] \in {"open", "decoder"}
        /\ declined = "none"
        /\ unpack_fn = "none"
        /\ fs = fs0
        /\ pc = "done" => ret \in {"panic", "Err"}

\* C11 witness: a filter was composed, then the loop met a container and
\* the call panicked.
C11_Witness ==
    /\ MisplacedContainer
    /\ Occurs("decoder")
    /\ ret = "panic"
    /\ pc = "done"

\* C12: with a filter as terminal, the question about an existing output
\* path comes before the file is created; when the user declines, nothing
\* under the destination has changed, nothing was created or copied and
\* nothing is reported; a report means the decoded stream was copied in
\* full into the output file and the count is 1.
C12_FilterTerminal ==
    first_extension \in FilterFormats =>
        /\ (Occurs("create") /\ fs0[output_file_path] # NoNode) =>
                Precedes("ask_create", "create")
        /\ Precedes("create", "copy")
        /\ declined = "create" =>
                /\ fs = fs0
                /\ ~Occurs("create") /\ ~Occurs("copy") /\ ~Occurs("info")
                /\ pc = "done" /\ ret = "Ok" /\ aborted
        /\ Occurs("info") =>
                /\ Occurs("copy")
                /\ fs[output_file_path] = OutFile("full")
                /\ \A n \in Names \ {output_file_path} : fs[n] = fs0[n]
                /\ files_unpacked = 1
                /\ Len(reader) = Len(flatten_compression_formats(formats))

\* C12 witness: the output path existed, the user consented, the stream of
\* a two-filter chain was copied and reported.
C12_Witness ==
    /\ first_extension \in FilterFormats
    /\ Len(extensions) = 1
    /\ fs0[output_file_path] = OldNode
    /\ Occurs("ask_create")
    /\ Occurs("info")
    /\ files_unpacked = 1

\* The declining answer to the overwrite question is reached as well.
C12_WitnessDeclined ==
    /\ first_extension \in FilterFormats
    /\ declined = "create"
    /\ pc = "done"

\* C13: for a chain ordered outermost-first (every layer but the last a
\* filter, as [Gz, Tar] for archive.tar.gz) and an existing output
\* directory, the call does not panic, the
\* terminal action is the one of the last format, and the decoders are
\* wrapped around the file reader in chain order, the first filter
\* innermost around the raw bytes.
OutermostFirst ==
    LET flat == flatten_compression_formats(formats)
    IN  \A i \in 1..(Len(flat) - 1) : flat[i] \in FilterFormats

C13_OutermostFirstChain ==
    LET flat == flatten_compression_formats(formats)
        last == flat[Len(flat)]
        filters == SubSeq(flat, 1, Len(flat) - 1)
    IN  (OutermostFirst /\ output_dir_exists) =>
            /\ ret # "panic"
            /\ unpack_fn = "tar_reader" => (last = "Tar" /\ reader = filters)
            /\ unpack_fn \in {"zip_file", "zip_cursor"} =>
                    (last = "Zip" /\ reader = filters)
            /\ unpack_fn = "sevenz_path" => last = "SevenZip"
            /\ pc \in {"ask_create", "copy"} =>
                    (last \in FilterFormats /\ reader = flat)

\* C14: within smart_unpack the extractor has returned before the
\* collision check, the check is made at most once and never while the
\* extractor still runs, a rename happens at most once, only after the one
\* check, and never after a declined or failed check.
C14_SmartUnpackOrder ==
    /\ NumOf("clear_path") <= 1
    /\ NumOf("rename") + NumOf("rename_err") <= 1
    /\ NumOf("root_single") + NumOf("root_multi") <= 1
    /\ Precedes("tempdir", "root_single") /\ Precedes("tempdir", "root_multi")
    /\ Occurs("clear_path") =>
            /\ Occurs("root_single") \/ Occurs("root_multi")
            /\ pc # "unpack"
            /\ fs[TmpName].entries \subseteq extracted
    /\ Precedes("clear_path", "rename")
    /\ Precedes("clear_path", "rename_err")
    /\ pc \in {"su_single_rename", "su_multi_rename"} =>
            (NumOf("clear_path") = 1 /\ declined = "none" /\ flow = "none")
    /\ Occurs("rename") =>
            (NumOf("clear_path") = 1 /\ declined = "none" /\ flow = "Continue")

\* C14 witness: several entries extracted, the check answered with consent
\* for an existing path, then the one rename.
C14_Witness ==
    /\ Len(log) >= 5
    /\ SubSeq(log, Len(log) - 3, Len(log)) =
            <<"tempdir", "root_multi", "clear_path", "rename">>
    /\ Cardinality(extracted) = 2
    /\ fs0[output_file_path] = OldNode
    /\ flow = "Continue"

\* C15: the success summary is reported at most once and as the last
\* event, after the output file was copied in full or smart_unpack
\* returned Continue after its rename; a call in which the user declined a
\* question, or which ended with an error or a panic, has reported
\* nothing.
C15_ReportOnlyAfterPlacement ==
    /\ NumOf("info") <= 1
    /\ Occurs("info") =>
            /\ log[Len(log)] = "info"
            /\ pc = "done" /\ ret = "Ok"
            /\ declined = "none" /\ ~aborted
            /\ IF unpack_fn = "none"
                 THEN /\ first_extension \in FilterFormats
                      /\ Precedes("copy", "info")
                      /\ fs[output_file_path] = OutFile("full")
                 ELSE /\ flow = "Continue"
                      /\ Precedes("rename", "info")
                      /\ TempDirGone
                      /\ files_unpacked = files
    /\ (declined # "none" \/ aborted \/ ret \in {"Err", "panic"}
            \/ flow \in {"Break", "Err"}) => ~Occurs("info")

\* C15 witness: a report after a multi-entry promotion of a tar archive
\* under a filter.
C15_Witness ==
    /\ Occurs("info")
    /\ unpack_fn = "tar_reader"
    /\ reader # <<>>
    /\ Occurs("root_multi")
    /\ fs[output_file_path] = NewNode(extracted)

\* C16: with a missing output directory, a call of decompress_file stops
\* at its assertion and a call of smart_unpack at its own: the input file
\* is not opened, no decoder built, no question asked, no temporary
\* directory or output file created, and the call ends in a panic.
C16_MissingOutputDir ==
    ~output_dir_exists =>
        /\ pc \in {"start", "su_start", "done"}
        /\ log = <<>>
        /\ reader = <<>>
        /\ declined = "none"
        /\ fs = fs0
        /\ \A p \in Paths : fs[p] = NoNode
        /\ pc = "done" => ret = "panic"

\* C16 witness: decompress_file, called for a two-layer chain and a
\* missing directory, has panicked.
C16_Witness ==
    /\ ~output_dir_exists
    /\ Len(formats) = 2
    /\ pc = "done"
    /\ ret = "panic"

\* smart_unpack called on its own for a missing directory panics as well.
C16_WitnessSmartUnpack ==
    /\ ~output_dir_exists
    /\ unpack_fn = "sevenz_path"
    /\ pc = "done"
    /\ ret = "panic"

====
